---------------------------- MODULE Spec2Model ----------------------------
(* A model of the E-Tongue Streamlit dashboard (src/app.py).                *)
(*                                                                          *)
(* One Streamlit session is modelled.  Streamlit executes the whole script *)
(* from top to bottom once per user interaction ("script run"); the values *)
(* in st.session_state survive from one run to the next.  Every action of  *)
(* the model is one complete script run (or one change of the environment: *)
(* the model file on disk).  st.stop() and st.experimental_rerun() raise   *)
(* Streamlit's script-control exceptions, which derive from BaseException  *)
(* and therefore pass through "except Exception" handlers.                 *)
(*                                                                          *)
(* pH values are kept in tenths (5.5 is 55), light values in sensor units. *)
EXTENDS Integers, Sequences, FiniteSets, TLC

VARIABLES
    model,              \* st.session_state.model
    MODEL_AVAILABLE,    \* st.session_state.MODEL_AVAILABLE
    expected_features,  \* st.session_state.expected_features
    serial_available,   \* st.session_state.serial_available
    serial_ports,       \* st.session_state.serial_ports
    serial_obj,         \* st.session_state.serial_obj
    serial_connected,   \* st.session_state.serial_connected
    page_redirect,      \* st.session_state.page_redirect
    page,               \* value of the sidebar radio
    uploaded,           \* value of the file uploader widget
    widgets,            \* widgets rendered by the latest script run
    rerun_requested,    \* st.experimental_rerun() ended the latest run
    handles,            \* every serial.Serial object the session created
    disk,               \* herb_classifier.joblib in the working directory
    joblib_installed,   \* whether "import joblib" succeeds
    pyserial_installed, \* whether "import serial" succeeds
    run                 \* what the latest script run did (observation log)

vars == <<model, MODEL_AVAILABLE, expected_features, serial_available,
          serial_ports, serial_obj, serial_connected, page_redirect, page,
          uploaded, widgets, rerun_requested, handles, disk,
          joblib_installed, pyserial_installed, run>>

-----------------------------------------------------------------------------
(* Bounds of the model *)

MaxHandles == 2

-----------------------------------------------------------------------------
(* Program constants *)

FALLBACK_FEATURES == 11

PH_LOW == 55

PH_HIGH == 85

-----------------------------------------------------------------------------
(* Values *)

\* Python's None and a present value
None == <<>>

Some(v) == <<v>>

Max(a, b) == IF a >= b THEN a ELSE b

\* Values of n_features_in_ among the classifiers a file may hold
DeclaredWidths == {1, 2, 3}

\* A deserialized classifier: it may or may not have n_features_in_.
Models ==
    {[declares |-> FALSE, n |-> 0]}
        \cup {[declares |-> TRUE, n |-> w] : w \in DeclaredWidths}

NoFile == [exists |-> FALSE, loadable |-> FALSE, obj |-> [declares |-> FALSE, n |-> 0]]

CorruptFile == [exists |-> TRUE, loadable |-> FALSE, obj |-> [declares |-> FALSE, n |-> 0]]

ValidFile(m) == [exists |-> TRUE, loadable |-> TRUE, obj |-> m]

UploadableFiles == {CorruptFile} \cup {ValidFile(m) : m \in Models}

DiskStates == {NoFile} \cup UploadableFiles

\* The serial devices that may be attached
Ports == {"COM3"}

Pages == {"Instructions", "Home", "Herb Classifier", "Dataset"}

\* HERB_INFO: the label's entry, or the "Unknown" entry
HERB_INFO == {"Tulsi", "Neem", "Ashwagandha", "Unknown"}

HerbInfoGet(pred) == IF pred \in HERB_INFO THEN pred ELSE "Unknown"

Labels == {"Tulsi", "Brahmi"}

\* A JSON value of a reading: a number (or numeric string) that float()
\* accepts, or a value on which float() raises.
Num(v) == [numeric |-> TRUE, val |-> v]

NonNum == [numeric |-> FALSE, val |-> 0]

LdrValues == {None, Some(NonNum), Some(Num(320))}

DigValues == {None, Some(Num(1))}

PhValues == {None, Some(NonNum), Some(Num(54)), Some(Num(55)), Some(Num(85)),
             Some(Num(86))}

\* What ser.readline() yields: an I/O error, nothing before the timeout, a
\* line of white space, text that is not JSON, JSON that is no object
\* (scalar: "in" raises; array: "in" is false; arraykeys: a list or string
\* holding both names), or a JSON object.
NonObjectKinds == {"ioerror", "timeout", "blank", "text", "scalar", "array", "arraykeys"}

\* LDR_Digital is optional: it is given on some of the complete readings.
Lines ==
    {[kind |-> k, ldr |-> None, dig |-> None, ph |-> None] : k \in NonObjectKinds}
        \cup {[kind |-> "object", ldr |-> l, dig |-> None, ph |-> p] :
                l \in LdrValues, p \in PhValues}
        \cup {[kind |-> "object", ldr |-> Some(Num(320)), dig |-> d, ph |-> p] :
                d \in DigValues, p \in {Some(Num(55)), Some(Num(86))}}

NoLine == [kind |-> "timeout", ldr |-> None, dig |-> None, ph |-> None]

PredictOutcomes == {"raise"} \cup Labels

\* predict is reached only with a reading whose two values convert to
\* float; for any other line its behaviour is immaterial.
OutcomesFor(line) ==
    IF /\ line.kind = "object"
       /\ line.ldr # None /\ line.ph # None
       /\ line.ldr[1].numeric /\ line.ph[1].numeric
    THEN PredictOutcomes
    ELSE {"raise"}

\* The observation log of a script run, as it is when the run starts.
EmptyRun ==
    [page |-> "Instructions", classifier |-> FALSE, ended |-> "none",
     loads |-> 0, load_ok |-> FALSE,
     opened |-> None, closed |-> None, close_raised |-> FALSE,
     analysis |-> FALSE, read_from |-> None, line |-> NoLine,
     parsed |-> FALSE, errors |-> <<>>, named |-> {}, X |-> None,
     predict_on |-> None, result |-> None, warning |-> FALSE]

-----------------------------------------------------------------------------
(* The script, block by block.  A context c holds st.session_state, the    *)
(* widget values, the serial objects, the model file, the log of the run,  *)
(* and ctl: "run" while the script executes, "stop" after st.stop(),       *)
(* "rerun" after st.experimental_rerun(), "crash" after an uncaught error. *)

Render(c, w) == [c EXCEPT !.widgets = @ \cup {w}]

Stop(c) == [c EXCEPT !.ctl = "stop"]

\* A failure exit that forgets to clear the availability flag
LoadFailed_KeepsFlag(c) == [c EXCEPT !.model = None]

\* try_load_model: the three failure exits
LoadFailed(c) == [c EXCEPT !.MODEL_AVAILABLE = FALSE, !.model = None]

\* try_load_model: int(model.n_features_in_), or the fallback
DeclaredFeatures(m) == IF m.declares THEN m.n ELSE FALLBACK_FEATURES

try_load_model(c) ==
    LET a == [c EXCEPT !.log.loads = @ + 1, !.log.load_ok = FALSE]
    IN  IF ~joblib_installed THEN LoadFailed(a)
        ELSE IF ~a.disk.exists THEN LoadFailed(a)
        ELSE IF ~a.disk.loadable THEN LoadFailed(a)
        ELSE [a EXCEPT !.model = Some(a.disk.obj),
                       !.MODEL_AVAILABLE = TRUE,
                       !.expected_features = Some(DeclaredFeatures(a.disk.obj)),
                       !.log.load_ok = TRUE]

\* try: import serial ... except
ImportSerial(c) == [c EXCEPT !.serial_available = pyserial_installed]

refresh_serial_ports(c, listing) ==
    [c EXCEPT !.serial_ports =
        IF c.serial_available /\ ~listing.raises THEN listing.ports ELSE {}]

\* Home page: the button sets the redirect
HomePage(c, click) ==
    LET r == Render(c, "home_start")
    IN  IF click = "home_start"
        THEN [r EXCEPT !.page_redirect = "Herb Classifier"]
        ELSE r

\* Herb Classifier page: model status block
ModelStatus(c) ==
    IF c.ctl # "run" THEN c
    ELSE IF c.MODEL_AVAILABLE THEN c
    ELSE LET r == Render(c, "uploader")
         IN  IF r.uploaded # None
             THEN [try_load_model([r EXCEPT !.disk = r.uploaded[1]])
                      EXCEPT !.ctl = "rerun"]
             ELSE Stop(r)

\* Herb Classifier page: Arduino connection gate
SerialStatus(c) ==
    IF c.ctl # "run" THEN c
    ELSE IF ~c.serial_available THEN Stop(c)
    ELSE c

RefreshButton(c, click, listing) ==
    IF c.ctl # "run" THEN c
    ELSE LET r == Render(c, "refresh")
         IN  IF click = "refresh" THEN refresh_serial_ports(r, listing) ELSE r

\* serial_obj.close() inside try/except: the error is swallowed; an erroring
\* close may or may not have released the port.
SerialClose(c, outcome) ==
    IF c.serial_obj = None
    THEN [c EXCEPT !.log.close_raised = TRUE]
    ELSE [c EXCEPT !.handles[c.serial_obj[1]].is_open = (outcome = "raised_open"),
                   !.log.closed = c.serial_obj,
                   !.log.close_raised = (outcome # "closed")]

\* A Disconnect that forgets to clear serial_connected
Disconnect_KeepsFlag(c, outcome) ==
    [SerialClose(c, outcome) EXCEPT !.serial_obj = None]

Disconnect(c, outcome) ==
    [SerialClose(c, outcome) EXCEPT !.serial_obj = None,
                                    !.serial_connected = FALSE]

DisconnectButton(c, click, outcome) ==
    IF c.ctl # "run" THEN c
    ELSE LET r == Render(c, "disconnect")
         IN  IF click = "disconnect" /\ r.serial_connected
             THEN Disconnect(r, outcome)
             ELSE r

\* Port selection: stop without ports; otherwise the selectbox holds one
\* of the listed ports (the user's choice, or the first option).
PortSelection(c, sel) ==
    IF c.ctl # "run" THEN c
    ELSE IF c.serial_ports = {} THEN Stop(c)
    ELSE [c EXCEPT !.selected_port =
            IF sel \in c.serial_ports THEN sel
            ELSE CHOOSE p \in c.serial_ports : TRUE]

Connect(c, open_ok) ==
    IF open_ok
    THEN [c EXCEPT !.handles = Append(@, [port |-> c.selected_port, is_open |-> TRUE]),
                   !.serial_obj = Some(Len(c.handles) + 1),
                   !.serial_connected = TRUE,
                   !.log.opened = Some(Len(c.handles) + 1)]
    ELSE Stop([c EXCEPT !.serial_obj = None, !.serial_connected = FALSE])

Reconnect(c, outcome) ==
    [SerialClose(c, outcome) EXCEPT !.serial_connected = FALSE, !.ctl = "rerun"]

ConnectBlock(c, click, open_ok, outcome) ==
    IF c.ctl # "run" THEN c
    ELSE IF ~c.serial_connected
    THEN LET r == Render(c, "connect")
         IN  IF click = "connect" THEN Connect(r, open_ok) ELSE r
    ELSE IF c.serial_obj = None
    THEN [c EXCEPT !.ctl = "crash"]
    ELSE LET r == Render(c, "reconnect")
         IN  IF click = "reconnect" THEN Reconnect(r, outcome) ELSE r

-----------------------------------------------------------------------------
(* Start Herb Analysis: the handler of the button *)

\* st.error(...) followed by st.stop()
Fail(c, e) == Stop([c EXCEPT !.log.errors = Append(@, e)])

\* the outer "except Exception": report and go on with the script
Unexpected(c) == [c EXCEPT !.log.errors = Append(@, "Unexpected")]

\* The emptiness test without the strip()
RawIsEmpty_NoStrip(line) == line.kind = "timeout"

\* raw_bytes.decode(...).strip() == ""
RawIsEmpty(line) == line.kind \in {"timeout", "blank"}

\* json.loads(raw) succeeds
JsonLoads(line) == line.kind \in {"scalar", "array", "arraykeys", "object"}

REQUIRED == {"LDR_Analog", "pH"}

\* the keys of a parsed object
Keys(data) ==
    {k \in {"LDR_Analog", "LDR_Digital", "pH"} :
        \/ k = "LDR_Analog" /\ data.ldr # None
        \/ k = "LDR_Digital" /\ data.dig # None
        \/ k = "pH" /\ data.ph # None}

\* A validation that checks only the light value
RequiredMissing_LdrOnly(data) ==
    IF data.kind = "arraykeys" THEN FALSE
    ELSE IF data.kind = "array" THEN TRUE
    ELSE "LDR_Analog" \notin Keys(data)

\* "LDR_Analog" not in data or "pH" not in data
RequiredMissing(data) ==
    IF data.kind = "arraykeys" THEN FALSE
    ELSE IF data.kind = "array" THEN TRUE
    ELSE "LDR_Analog" \notin Keys(data) \/ "pH" \notin Keys(data)

\* float(data[key]): None when the lookup or the conversion raises
Float(data, v) ==
    IF data.kind # "object" \/ v = None THEN None
    ELSE IF v[1].numeric THEN Some(v[1].val)
    ELSE None

\* st.session_state.expected_features or 11
Expected(ef) == IF ef = None \/ ef[1] = 0 THEN FALLBACK_FEATURES ELSE ef[1]

\* A padding that is one zero short
FeatureVector_ShortPad(ldr, ph, expected) ==
    <<ldr, ph>> \o [i \in 1..Max(0, expected - 3) |-> 0]

\* [float(LDR_Analog), float(pH)] + [0.0] * max(0, expected - 2)
FeatureVector(ldr, ph, expected) ==
    <<ldr, ph>> \o [i \in 1..Max(0, expected - 2) |-> 0]

\* A pH check whose range excludes its end points
AbnormalPH_Exclusive(ph) == ph <= PH_LOW \/ ph >= PH_HIGH

\* float(pH) < 5.5 or float(pH) > 8.5
AbnormalPH(ph) == ph < PH_LOW \/ ph > PH_HIGH

\* st.success / st.metric / HERB_INFO.get / the pH check
ShowResults(c, data, pred) ==
    [c EXCEPT !.log.result = Some([label |-> pred,
                                   ldr |-> data.ldr,
                                   dig |-> data.dig,
                                   ph |-> data.ph,
                                   info |-> HerbInfoGet(pred)]),
              !.log.warning = AbnormalPH(Float(data, data.ph)[1])]

\* model.predict(X)[0] inside try/except
Predict(c, data, X, pred) ==
    LET a == [c EXCEPT !.log.X = Some(X),
                       !.log.predict_on = Some([available |-> c.MODEL_AVAILABLE,
                                                model |-> c.model])]
    IN  IF c.model = None \/ pred = "raise"
        THEN Fail(a, "PredictionFailed")
        ELSE ShowResults(a, data, pred)

Classify(c, data, pred) ==
    LET ldr == Float(data, data.ldr)
        ph == Float(data, data.ph)
    IN  IF ldr = None \/ ph = None
        THEN Unexpected(c)
        ELSE Predict(c, data,
                     FeatureVector(ldr[1], ph[1], Expected(c.expected_features)),
                     pred)

\* Validate required keys; "in" raises on a scalar, data.keys() on a list
Validate(c, data, pred) ==
    IF data.kind = "scalar" THEN Unexpected(c)
    ELSE IF RequiredMissing(data)
    THEN LET e == [c EXCEPT !.log.errors = Append(@, "MissingRequiredField"),
                            !.log.named = REQUIRED]
         IN  IF data.kind = "object" THEN Stop(e) ELSE Unexpected(e)
    ELSE Classify(c, data, pred)

Parse(c, line, pred) ==
    LET a == [c EXCEPT !.log.parsed = TRUE]
    IN  IF JsonLoads(line) THEN Validate(a, line, pred)
        ELSE Fail(a, "MalformedReading")

StartHerbAnalysis(c, line, pred) ==
    LET a == [c EXCEPT !.log.analysis = TRUE, !.log.line = line]
    IN  IF a.serial_obj = None THEN Unexpected(a)
        ELSE LET r == [a EXCEPT !.log.read_from = a.serial_obj]
             IN  IF line.kind = "ioerror" THEN Unexpected(r)
                 ELSE IF RawIsEmpty(line)
                 THEN Fail(r, "NoDataReceived")
                 ELSE Parse(r, line, pred)

\* A gate that lets the analysis run without a connection
AnalysisEnabled_NoDevice(c) == c.MODEL_AVAILABLE

\* if serial_connected and MODEL_AVAILABLE
AnalysisEnabled(c) == c.serial_connected /\ c.MODEL_AVAILABLE

RunAnalysis(c, click, line, pred) ==
    IF c.ctl # "run" THEN c
    ELSE IF AnalysisEnabled(c)
    THEN LET r == Render(c, "start")
         IN  IF click = "start" THEN StartHerbAnalysis(r, line, pred) ELSE r
    ELSE c

\* st.session_state.page_redirect = None, the page's last statement
ClearRedirect(c) ==
    IF c.ctl # "run" THEN c ELSE [c EXCEPT !.page_redirect = "None"]

HerbClassifierPage(c0, inp) ==
    LET c == [c0 EXCEPT !.log.classifier = TRUE]
    IN
    ClearRedirect(
      RunAnalysis(
        ConnectBlock(
          PortSelection(
            DisconnectButton(
              RefreshButton(SerialStatus(ModelStatus(c)), inp.click, inp.listing),
              inp.click, inp.close),
            inp.select),
          inp.click, inp.open_ok, inp.close),
        inp.click, inp.line, inp.pred))

\* the page chain: if / elif / elif / elif
PageBody(c, inp) ==
    IF inp.page = "Instructions" THEN c
    ELSE IF inp.page = "Home" THEN HomePage(c, inp.click)
    ELSE IF inp.page = "Herb Classifier" \/ c.page_redirect = "Herb Classifier"
    THEN HerbClassifierPage(c, inp)
    ELSE c

\* The context a script run starts from
Context(inp) ==
    [model |-> model, MODEL_AVAILABLE |-> MODEL_AVAILABLE,
     expected_features |-> expected_features,
     serial_available |-> serial_available, serial_ports |-> serial_ports,
     serial_obj |-> serial_obj, serial_connected |-> serial_connected,
     page_redirect |-> page_redirect, uploaded |-> inp.upload,
     selected_port |-> inp.select, widgets |-> {"nav"}, handles |-> handles,
     disk |-> disk, ctl |-> "run",
     log |-> [EmptyRun EXCEPT !.page = inp.page]]

\* One execution of the script, top to bottom
Script(inp) ==
    PageBody(
      refresh_serial_ports(ImportSerial(try_load_model(Context(inp))), inp.listing),
      inp)

-----------------------------------------------------------------------------
(* Actions: each user interaction triggers one script run *)

\* What list_ports.comports() returns during a run
Listings ==
    {[raises |-> FALSE, ports |-> P] : P \in SUBSET Ports}
        \cup {[raises |-> TRUE, ports |-> {}]}

CloseOutcomes == {"closed", "raised_closed", "raised_open"}

\* The inputs of a run in which nothing but the given widget changed
Inputs(p, click, listing) ==
    [page |-> p, click |-> click, upload |-> uploaded,
     select |-> CHOOSE q \in Ports : TRUE,
     listing |-> listing, open_ok |-> FALSE, close |-> "closed",
     line |-> NoLine, pred |-> "raise"]

\* The state a run leaves behind; widgets that were not rendered lose
\* their value.
Commit(c) ==
    /\ model' = c.model
    /\ MODEL_AVAILABLE' = c.MODEL_AVAILABLE
    /\ expected_features' = c.expected_features
    /\ serial_available' = c.serial_available
    /\ serial_ports' = c.serial_ports
    /\ serial_obj' = c.serial_obj
    /\ serial_connected' = c.serial_connected
    /\ page_redirect' = c.page_redirect
    /\ page' = c.log.page
    /\ uploaded' = IF "uploader" \in c.widgets THEN c.uploaded ELSE None
    /\ widgets' = c.widgets
    /\ rerun_requested' = (c.ctl = "rerun")
    /\ handles' = c.handles
    /\ disk' = c.disk
    /\ run' = [c.log EXCEPT !.ended = IF c.ctl = "run" THEN "done" ELSE c.ctl]
    /\ UNCHANGED <<joblib_installed, pyserial_installed>>

\* The browser opens the app: the first run of the script
OpenSession ==
    /\ widgets = {}
    /\ \E listing \in Listings :
          Commit(Script(Inputs("Instructions", "none", listing)))

\* The sidebar radio
SelectPage(p) ==
    /\ "nav" \in widgets
    /\ p # page
    /\ \E listing \in Listings : Commit(Script(Inputs(p, "none", listing)))

\* Home page: "Start Herb Analysis"
ClickHomeStart ==
    /\ "home_start" \in widgets
    /\ \E listing \in Listings :
          Commit(Script(Inputs(page, "home_start", listing)))

\* The file uploader of the model status block
UploadModel(f) ==
    /\ "uploader" \in widgets
    /\ \E listing \in Listings :
          Commit(Script([Inputs(page, "none", listing) EXCEPT !.upload = Some(f)]))

ClickRefreshPorts ==
    /\ "refresh" \in widgets
    /\ \E listing \in Listings :
          Commit(Script(Inputs(page, "refresh", listing)))

ClickDisconnect ==
    /\ "disconnect" \in widgets
    /\ \E listing \in Listings, outcome \in CloseOutcomes :
          Commit(Script([Inputs(page, "disconnect", listing)
                            EXCEPT !.close = outcome]))

\* The port selectbox and "Connect to selected port"
ClickConnect ==
    /\ "connect" \in widgets
    /\ Len(handles) < MaxHandles
    /\ \E listing \in Listings, sel \in Ports, ok \in BOOLEAN :
          Commit(Script([Inputs(page, "connect", listing)
                            EXCEPT !.select = sel, !.open_ok = ok]))

ClickReconnect ==
    /\ "reconnect" \in widgets
    /\ \E listing \in Listings, outcome \in CloseOutcomes :
          Commit(Script([Inputs(page, "reconnect", listing)
                            EXCEPT !.close = outcome]))

ClickStartAnalysis ==
    /\ "start" \in widgets
    /\ \E listing \in Listings, line \in Lines :
         \E pred \in OutcomesFor(line) :
          Commit(Script([Inputs(page, "start", listing)
                            EXCEPT !.line = line, !.pred = pred]))

\* The run that st.experimental_rerun() asked for
AutoRerun ==
    /\ rerun_requested
    /\ \E listing \in Listings : Commit(Script(Inputs(page, "none", listing)))

\* Environment: herb_classifier.joblib is added, replaced or removed
ModelFileChanged(d) ==
    /\ d # disk
    /\ disk' = d
    /\ UNCHANGED <<model, MODEL_AVAILABLE, expected_features, serial_available,
                   serial_ports, serial_obj, serial_connected, page_redirect,
                   page, uploaded, widgets, rerun_requested, handles,
                   joblib_installed, pyserial_installed, run>>

Init ==
    /\ model = None
    /\ MODEL_AVAILABLE = FALSE
    /\ expected_features = None
    /\ serial_available = FALSE
    /\ serial_ports = {}
    /\ serial_obj = None
    /\ serial_connected = FALSE
    /\ page_redirect = "None"
    /\ page = "Instructions"
    /\ uploaded = None
    /\ widgets = {}
    /\ rerun_requested = FALSE
    /\ handles = <<>>
    /\ disk \in DiskStates
    /\ joblib_installed \in BOOLEAN
    /\ pyserial_installed \in BOOLEAN
    /\ run = EmptyRun

Next ==
    \/ OpenSession
    \/ \E p \in Pages : SelectPage(p)
    \/ ClickHomeStart
    \/ \E f \in UploadableFiles : UploadModel(f)
    \/ ClickRefreshPorts
    \/ ClickDisconnect
    \/ ClickConnect
    \/ ClickReconnect
    \/ ClickStartAnalysis
    \/ AutoRerun
    \/ \E d \in DiskStates : ModelFileChanged(d)

Spec == Init /\ [][Next]_vars

-----------------------------------------------------------------------------
(* Properties *)

OpenHandles == {h \in 1..Len(handles) : handles[h].is_open}

Taxonomy == {"NoDataReceived", "MalformedReading", "MissingRequiredField",
             "PredictionFailed"}

ZeroPadded(X) == \A i \in 3..Len(X) : X[i] = 0

\* C1: predict is invoked only while the model is available (the latest
\* load attempt of the run succeeded and the session holds the model); a
\* run whose load attempt failed leaves the model unavailable, invokes no
\* predict, shows no result and does not crash.
C1_PredictOnlyWhenModelAvailable ==
    /\ run.predict_on # None =>
          /\ run.predict_on[1].available
          /\ run.predict_on[1].model # None
          /\ run.load_ok
          /\ MODEL_AVAILABLE /\ model # None
    /\ (run.loads > 0 /\ ~run.load_ok) =>
          /\ ~MODEL_AVAILABLE /\ model = None
          /\ run.predict_on = None /\ run.result = None
          /\ "start" \notin widgets
          /\ run.ended # "crash"

\* A connected session whose model load fails: the classifier page stops
\* at the model status block.
C1_Witness ==
    /\ run.classifier /\ run.loads > 0 /\ ~run.load_ok
    /\ serial_connected
    /\ run.ended = "stop"

\* C2: at most one serial handle of the session is open; a Connect opens a
\* handle only when every earlier handle is closed; the handle closed by
\* Disconnect or Reconnect is closed afterwards, also when close() raised.
C2_AtMostOneOpenHandle ==
    /\ Cardinality(OpenHandles) <= 1
    /\ run.opened # None => OpenHandles \subseteq {run.opened[1]}
    /\ run.closed # None => run.closed[1] \notin OpenHandles

\* C3: serial_connected is true only while serial_obj holds an open handle;
\* a line is read only from the session's open handle; without a connection
\* the analysis does not start, reads nothing and classifies nothing.
C3_ReadOnlyFromOpenHandle ==
    /\ serial_connected => serial_obj # None /\ serial_obj[1] \in OpenHandles
    /\ run.read_from # None =>
          run.read_from = serial_obj /\ run.read_from[1] \in OpenHandles
    /\ ~serial_connected =>
          /\ "start" \notin widgets
          /\ ~run.analysis /\ run.read_from = None
          /\ run.X = None /\ run.result = None

\* After Reconnect the session still holds the handle it closed, and the
\* page offers no analysis although the model is available.
C3_Witness ==
    /\ serial_obj # None /\ serial_obj[1] \notin OpenHandles
    /\ ~serial_connected
    /\ MODEL_AVAILABLE /\ run.classifier

\* C4: a read whose line is empty after stripping (nothing before the
\* timeout, or white space only) ends the request with NoDataReceived
\* alone: no JSON parse, no predict, no result.
C4_EmptyLineIsNoData ==
    (run.analysis /\ run.read_from # None /\ run.line.kind \in {"timeout", "blank"}) =>
        /\ run.errors = <<"NoDataReceived">>
        /\ ~run.parsed
        /\ run.predict_on = None /\ run.result = None
        /\ run.ended = "stop"

\* A line of white space only was read.
C4_Witness ==
    /\ run.analysis /\ run.line.kind = "blank"
    /\ run.errors = <<"NoDataReceived">>

C7_AbnormalPhWarning ==
    /\ (run.predict_on # None /\ run.errors = <<>>) => run.result # None
    /\ run.result # None =>
          /\ run.warning <=>
                (run.line.ph[1].val < PH_LOW \/ run.line.ph[1].val > PH_HIGH)
          /\ run.result[1].ldr = run.line.ldr
          /\ run.result[1].ph = run.line.ph
          /\ run.result[1].info \in HERB_INFO
    /\ run.warning => run.result # None

\* pH exactly 5.5: a result without the warning.
C7_Witness ==
    /\ run.result # None
    /\ run.line.ph = Some(Num(PH_LOW))
    /\ ~run.warning

\* C8: after a successful load the model, its availability and its
\* expected width never change, and no later script run loads the model
\* again.
C8_LoadedOnceAndImmutable ==
    [][MODEL_AVAILABLE =>
          /\ model' = model
          /\ MODEL_AVAILABLE'
          /\ expected_features' = expected_features
          /\ (\E d \in DiskStates : ModelFileChanged(d)) \/ run'.loads = 0]_vars

\* C9 as stated: without a serial device the classifier page still offers
\* the analysis (on a synthetic reading) instead of stopping.
C9_SyntheticWithoutDevice ==
    (run.classifier /\ MODEL_AVAILABLE
        /\ (~serial_available \/ serial_ports = {})) =>
        /\ "start" \in widgets
        /\ run.ended # "stop"

\* C9 amended: there is no synthetic mode.  Without pyserial, without a
\* listed port or without a connection the classifier page offers no
\* analysis, acquires no reading and classifies nothing; every classified
\* reading was read from the connected serial device.
C9_NoAcquisitionWithoutDevice ==
    /\ (~serial_available \/ serial_ports = {} \/ ~serial_connected) =>
          /\ "start" \notin widgets
          /\ ~run.analysis
          /\ run.X = None /\ run.result = None
    /\ (run.classifier /\ (~serial_available \/ serial_ports = {})) =>
          run.ended \in {"stop", "rerun"}
    /\ run.result # None => run.read_from # None /\ run.line.kind = "object"

\* The model is available and pyserial is not: the page stops at the
\* Arduino connection block.
C9_Witness ==
    /\ run.classifier /\ MODEL_AVAILABLE
    /\ ~serial_available
    /\ run.ended = "stop"

\* C10: every analysis request that read a line ends with exactly one
\* outcome: a result and no error, or no result and exactly one error of
\* the taxonomy; a raising predict gives PredictionFailed and no result.
C10_ExactlyOneOutcome ==
    (run.analysis /\ run.read_from # None /\ run.line.kind # "ioerror") =>
        /\ \/ run.result # None /\ run.errors = <<>>
           \/ /\ run.result = None
              /\ Len(run.errors) = 1
              /\ run.errors[1] \in Taxonomy
        /\ run.predict_on # None =>
              (run.result # None \/ run.errors = <<"PredictionFailed">>)

=============================================================================
